---- MODULE Spec2Model ----
(***************************************************************************)
(* The JSON parsing engine of src/c/src/github_stats.c: the recursive-     *)
(* descent parser (json_parse and the productions it calls), the value     *)
(* tree it builds on the C heap, and the accessors main uses on the tree.  *)
(*                                                                         *)
(* A character is a one-character string; the input text is a sequence of  *)
(* characters and the terminating '\0' is the character NUL, read at every *)
(* offset >= Len(text).  The cursor parser->cur is the offset cur from     *)
(* parser->start.  The C call stack is the sequence stack of frames, each  *)
(* frame holding its function, its position and its locals; ret is the     *)
(* value the last returning function handed to its caller.  The heap is a  *)
(* sequence of cells, a pointer is an index into it, NULL is 0.            *)
(***************************************************************************)
EXTENDS Integers, Sequences, FiniteSets, TLC

VARIABLES text, cur, error, stack, ret, heap, root, stderr, getObj, getKey, got,
          call, getIndex, defaultValue, result

vars == <<text, cur, error, stack, ret, heap, root, stderr, getObj, getKey, got,
          call, getIndex, defaultValue, result>>

(***************************************************************************)
(* Characters                                                              *)
(***************************************************************************)
NUL == "NUL"
NULL == 0
QUOTE == "\""
BACKSLASH == "\\"
BS == "BS"
FF == "\f"
LF == "\n"
CR == "\r"
TAB == "\t"
SPACE == " "

\* The characters isspace takes for whitespace that JSON does not.
Whitespace_of_isspace == {SPACE, LF, CR, TAB, FF}

Whitespace == {SPACE, LF, CR, TAB}
DigitChars == <<"0", "1", "2", "3", "4", "5", "6", "7", "8", "9">>
Digits == {DigitChars[i] : i \in 1..10}
DigitVal(ch) == (CHOOSE i \in 1..10 : DigitChars[i] = ch) - 1

Min(a, b) == IF a < b THEN a ELSE b

\* *(start + i): the character at offset i of txt, NUL at and after its end.
CharAt(txt, i) == IF i < Len(txt) THEN txt[i + 1] ELSE NUL

(***************************************************************************)
(* The heap: malloc, realloc and free.  A cell counts the times it has     *)
(* been passed to free; it is live while the count is 0.  realloc grows a  *)
(* block in place: no pointer to the old block is kept by the callers.     *)
(***************************************************************************)
xmalloc(h, cell) == Append(h, cell)
NewAddr(h) == Len(h) + 1
free(h, p) == IF p = NULL THEN h ELSE [h EXCEPT ![p].frees = @ + 1]

BufferCell(cap) == [kind |-> "buffer", frees |-> 0, size |-> cap, bytes |-> <<>>]
BlockCell(cap) == [kind |-> "block", frees |-> 0, size |-> cap, slots |-> <<>>]

\* json_make_value: a fresh JsonValue cell of the given type.
json_make_value(type) ==
    CASE type = "JSON_ARRAY" ->
           [kind |-> "value", frees |-> 0, type |-> type,
            items |-> NULL, size |-> 0, capacity |-> 0]
      [] type = "JSON_OBJECT" ->
           [kind |-> "value", frees |-> 0, type |-> type,
            keys |-> NULL, values |-> NULL, size |-> 0, capacity |-> 0]
      [] OTHER -> [kind |-> "value", frees |-> 0, type |-> type]

(***************************************************************************)
(* The parser state and its primitives                                     *)
(***************************************************************************)
ExcerptLen == 32
NoError == <<>>

\* The text "%.32s" prints from offset c.
Excerpt(txt, c) == SubSeq(txt, c + 1, Min(c + ExcerptLen, Len(txt)))

\* json_error without the test of the slot: every call overwrites it.
json_error_overwrites(err, txt, c, message) == <<message, Excerpt(txt, c)>>

\* json_error: the slot keeps the first message, formatted "<message> near
\* <excerpt>"; the pair <<message, excerpt>> stands for that string.
json_error(err, txt, c, message) ==
    IF err = NoError THEN <<message, Excerpt(txt, c)>> ELSE err

json_peek(txt, c) == CharAt(txt, c)

\* json_next without the test for the terminator: it always advances.
json_next_unchecked(txt, c) == [ch |-> CharAt(txt, c), cur |-> c + 1]

\* json_next: the character read and the cursor after it.
json_next(txt, c) ==
    IF CharAt(txt, c) = NUL THEN [ch |-> NUL, cur |-> c]
    ELSE [ch |-> CharAt(txt, c), cur |-> c + 1]

\* json_expect: the cursor and the error slot after it.
json_expect(err, txt, c, ch) ==
    LET n == json_next(txt, c) IN
    [cur |-> n.cur,
     error |-> IF n.ch # ch
               THEN json_error(err, txt, n.cur, "Expected '" \o ch \o "'")
               ELSE err]

RECURSIVE json_skip_ws(_, _)
json_skip_ws(txt, c) ==
    IF CharAt(txt, c) \in Whitespace THEN json_skip_ws(txt, c + 1) ELSE c

(***************************************************************************)
(* Frames                                                                  *)
(***************************************************************************)
Frame(fn, pc) ==
    [fn |-> fn, pc |-> pc, v |-> NULL, key |-> NULL, capacity |-> 0,
     length |-> 0, literal |-> <<>>, type |-> "", boolValue |-> 0, i |-> 0]

Top == stack[Len(stack)]
At(fn, pc) == Len(stack) > 0 /\ Top.fn = fn /\ Top.pc = pc
Pop == SubSeq(stack, 1, Len(stack) - 1)
\* The stack with its top frame replaced by f.
Goto(f) == Append(Pop, f)
\* The stack with its top frame replaced by f and g called on top of it.
Call(f, g) == Append(Append(Pop, f), g)

(***************************************************************************)
(* json_parse, first half: main calls json_parse(response), which sets up  *)
(* the parser and calls json_parse_value.                                  *)
(***************************************************************************)
\* What main holds of its calls into the tree: the function it called last,
\* the arguments, and the pointer or the scalar it got back.
getVars == <<getObj, getKey, got, call, getIndex, defaultValue, result>>
callerVars == <<root, stderr, getVars>>

json_parse_begin ==
    /\ At("main", "parse")
    /\ cur' = 0
    /\ error' = NoError
    /\ stack' = <<Frame("main", "root"), Frame("json_parse", "value"),
                  Frame("json_parse_value", "dispatch")>>
    /\ UNCHANGED <<text, ret, heap, callerVars>>

(***************************************************************************)
(* json_parse_value: skip whitespace, peek, and switch on the character.   *)
(***************************************************************************)
\* json_parse_value without its call of json_skip_ws.
ValueStart_unskipped == cur

ValueStart == json_skip_ws(text, cur)
ValueChar == json_peek(text, ValueStart)

\* case '"': call json_parse_string_literal.
json_parse_value_string ==
    /\ At("json_parse_value", "dispatch")
    /\ ValueChar = QUOTE
    /\ cur' = ValueStart
    /\ stack' = Call(Frame("json_parse_value", "text"),
                     Frame("json_parse_string_literal", "open"))
    /\ UNCHANGED <<text, error, ret, heap, callerVars>>

\* case '"', after the call: NULL, or a JSON_STRING owning the text.
json_parse_value_text ==
    /\ At("json_parse_value", "text")
    /\ IF ret = NULL
       THEN UNCHANGED <<ret, heap>>
       ELSE /\ heap' = xmalloc(heap, json_make_value("JSON_STRING")
                                        @@ [string |-> ret])
            /\ ret' = NewAddr(heap)
    /\ stack' = Pop
    /\ UNCHANGED <<text, cur, error, callerVars>>

\* case '{': return json_parse_object(parser).
json_parse_value_object ==
    /\ At("json_parse_value", "dispatch")
    /\ ValueChar = "{"
    /\ cur' = ValueStart
    /\ stack' = Goto(Frame("json_parse_object", "open"))
    /\ UNCHANGED <<text, error, ret, heap, callerVars>>

\* case '[': return json_parse_array(parser).
json_parse_value_array ==
    /\ At("json_parse_value", "dispatch")
    /\ ValueChar = "["
    /\ cur' = ValueStart
    /\ stack' = Goto(Frame("json_parse_array", "open"))
    /\ UNCHANGED <<text, error, ret, heap, callerVars>>

LiteralFrame(literal, type, boolValue) ==
    [Frame("json_parse_literal", "match") EXCEPT
       !.literal = literal, !.type = type, !.boolValue = boolValue]

\* case 't', 'f', 'n': return json_parse_literal(parser, ...).
json_parse_value_literal ==
    /\ At("json_parse_value", "dispatch")
    /\ ValueChar \in {"t", "f", "n"}
    /\ cur' = ValueStart
    /\ stack' = Goto(CASE ValueChar = "t" ->
                            LiteralFrame(<<"t", "r", "u", "e">>, "JSON_BOOL", 1)
                       [] ValueChar = "f" ->
                            LiteralFrame(<<"f", "a", "l", "s", "e">>, "JSON_BOOL", 0)
                       [] ValueChar = "n" ->
                            LiteralFrame(<<"n", "u", "l", "l">>, "JSON_NULL", 0))
    /\ UNCHANGED <<text, error, ret, heap, callerVars>>

\* case '-', '0' .. '9': return json_parse_number(parser).
json_parse_value_number ==
    /\ At("json_parse_value", "dispatch")
    /\ ValueChar \in {"-"} \cup Digits
    /\ cur' = ValueStart
    /\ stack' = Goto(Frame("json_parse_number", "scan"))
    /\ UNCHANGED <<text, error, ret, heap, callerVars>>

\* default: "Unexpected character".
json_parse_value_default ==
    /\ At("json_parse_value", "dispatch")
    /\ ValueChar \notin {QUOTE, "{", "[", "t", "f", "n", "-"} \cup Digits
    /\ cur' = ValueStart
    /\ error' = json_error(error, text, ValueStart, "Unexpected character")
    /\ ret' = NULL
    /\ stack' = Pop
    /\ UNCHANGED <<text, heap, callerVars>>

json_parse_value ==
    \/ json_parse_value_string
    \/ json_parse_value_text
    \/ json_parse_value_object
    \/ json_parse_value_array
    \/ json_parse_value_literal
    \/ json_parse_value_number
    \/ json_parse_value_default

(***************************************************************************)
(* json_parse_literal                                                      *)
(***************************************************************************)
\* The comparison of the first character only.
LiteralMatches_initial(txt, c, literal) == CharAt(txt, c) = literal[1]

\* strncmp(parser->cur, literal, len) == 0
LiteralMatches(txt, c, literal) ==
    \A i \in 1..Len(literal) : CharAt(txt, c + i - 1) = literal[i]

\* json_parse_literal returning NULL on a mismatch without json_error.
json_parse_literal_silent ==
    /\ At("json_parse_literal", "match")
    /\ IF ~LiteralMatches(text, cur, Top.literal)
       THEN /\ ret' = NULL
            /\ UNCHANGED <<cur, heap>>
       ELSE /\ cur' = cur + Len(Top.literal)
            /\ heap' = xmalloc(heap,
                  IF Top.type = "JSON_BOOL"
                  THEN json_make_value(Top.type) @@ [boolean |-> Top.boolValue]
                  ELSE json_make_value(Top.type))
            /\ ret' = NewAddr(heap)
    /\ stack' = Pop
    /\ UNCHANGED <<text, error, callerVars>>

json_parse_literal ==
    /\ At("json_parse_literal", "match")
    /\ IF ~LiteralMatches(text, cur, Top.literal)
       THEN /\ error' = json_error(error, text, cur, "Unexpected literal")
            /\ ret' = NULL
            /\ UNCHANGED <<cur, heap>>
       ELSE /\ cur' = cur + Len(Top.literal)
            /\ heap' = xmalloc(heap,
                  IF Top.type = "JSON_BOOL"
                  THEN json_make_value(Top.type) @@ [boolean |-> Top.boolValue]
                  ELSE json_make_value(Top.type))
            /\ ret' = NewAddr(heap)
            /\ UNCHANGED error
    /\ stack' = Pop
    /\ UNCHANGED <<text, callerVars>>

(***************************************************************************)
(* json_parse_number and the strtod it hands the token to                  *)
(***************************************************************************)
RECURSIVE ScanDigits(_, _)
\* while (*cur >= '0' && *cur <= '9') cur++
ScanDigits(txt, c) ==
    IF CharAt(txt, c) \in Digits THEN ScanDigits(txt, c + 1) ELSE c

\* The cursor after the number scan that starts at offset c.
NumberEnd(txt, c) ==
    LET p1 == IF CharAt(txt, c) = "-" THEN c + 1 ELSE c
        p2 == ScanDigits(txt, p1)
        p3 == IF CharAt(txt, p2) = "." THEN ScanDigits(txt, p2 + 1) ELSE p2
        q1 == p3 + 1
        q2 == IF CharAt(txt, q1) \in {"+", "-"} THEN q1 + 1 ELSE q1
    IN  IF CharAt(txt, p3) \in {"e", "E"} THEN ScanDigits(txt, q2) ELSE p3

RECURSIVE DigitsToNat(_)
DigitsToNat(ds) ==
    IF ds = <<>> THEN 0
    ELSE 10 * DigitsToNat(SubSeq(ds, 1, Len(ds) - 1)) + DigitVal(ds[Len(ds)])

RECURSIVE Normalize(_, _, _)
\* The decimal neg * mant * 10^exp with no trailing zero in mant.
Normalize(neg, mant, exp) ==
    IF mant = 0 THEN [neg |-> neg, mant |-> 0, exp |-> 0]
    ELSE IF mant % 10 = 0 THEN Normalize(neg, mant \div 10, exp + 1)
    ELSE [neg |-> neg, mant |-> mant, exp |-> exp]

\* strtod(buffer, NULL): the value of the longest prefix of tok that is a
\* decimal floating-point constant, 0 when there is none.  The double is
\* the one nearest the decimal value; the decimal value stands for it.
strtod(tok) ==
    LET neg == CharAt(tok, 0) = "-"
        i0 == IF CharAt(tok, 0) \in {"-", "+"} THEN 1 ELSE 0
        i1 == ScanDigits(tok, i0)
        int == SubSeq(tok, i0 + 1, i1)
        i2 == IF CharAt(tok, i1) = "." THEN ScanDigits(tok, i1 + 1) ELSE i1
        frac == SubSeq(tok, i1 + 2, i2)
        j0 == i2 + 1
        eneg == CharAt(tok, j0) = "-"
        j1 == IF CharAt(tok, j0) \in {"+", "-"} THEN j0 + 1 ELSE j0
        j2 == ScanDigits(tok, j1)
        e == IF CharAt(tok, i2) \in {"e", "E"} /\ j2 > j1
             THEN (IF eneg THEN -1 ELSE 1) * DigitsToNat(SubSeq(tok, j1 + 1, j2))
             ELSE 0
    IN  IF Len(int) + Len(frac) = 0
        THEN [neg |-> FALSE, mant |-> 0, exp |-> 0]
        ELSE Normalize(neg, DigitsToNat(int \o frac), e - Len(frac))

json_parse_number ==
    /\ At("json_parse_number", "scan")
    /\ LET end == NumberEnd(text, cur)
           token == SubSeq(text, cur + 1, end)
           buffer == [BufferCell(Len(token) + 1) EXCEPT
                        !.bytes = Append(token, NUL)]
           h1 == xmalloc(heap, buffer)
           h2 == free(h1, NewAddr(heap))
       IN  /\ cur' = end
           /\ heap' = xmalloc(h2, json_make_value("JSON_NUMBER")
                                    @@ [number |-> strtod(token)])
           /\ ret' = NewAddr(h2)
    /\ stack' = Pop
    /\ UNCHANGED <<text, error, callerVars>>

(***************************************************************************)
(* json_parse_string_literal                                               *)
(***************************************************************************)
StringCapacity == 32

\* buffer[i] = ch.  The bytes written so far are the cell's bytes; the
\* writes of this function are always at the next index.
store(h, p, ch) == [h EXCEPT ![p].bytes = Append(@, ch)]
\* realloc(buffer, capacity)
realloc(h, p, cap) == [h EXCEPT ![p].size = cap]

json_parse_string_literal_open ==
    /\ At("json_parse_string_literal", "open")
    /\ LET e == json_expect(error, text, cur, QUOTE) IN
       /\ cur' = e.cur
       /\ error' = e.error
    /\ heap' = xmalloc(heap, BufferCell(StringCapacity))
    /\ stack' = Goto([Frame("json_parse_string_literal", "loop") EXCEPT
                        !.v = NewAddr(heap), !.capacity = StringCapacity,
                        !.length = 0])
    /\ UNCHANGED <<text, ret, callerVars>>

\* The loop runs while *cur is neither NUL nor the closing quote.
InStringLoop ==
    /\ At("json_parse_string_literal", "loop")
    /\ json_peek(text, cur) \notin {NUL, QUOTE}

\* The first character of the iteration, and the one after a backslash.
StringCh1 == json_next(text, cur)
StringCh2 == json_next(text, StringCh1.cur)

SingleEscapes == {QUOTE, BACKSLASH, "/", "b", "f", "n", "r", "t"}

\* The switch with the bodies of case 'n' and case 'r' exchanged.
EscapeByte_swapped(ch) ==
    CASE ch \in {QUOTE, BACKSLASH, "/"} -> ch
      [] ch = "b" -> BS
      [] ch = "f" -> FF
      [] ch = "n" -> CR
      [] ch = "r" -> LF
      [] ch = "t" -> TAB

\* The switch on the escape character: the byte an escape stands for.
EscapeByte(ch) ==
    CASE ch \in {QUOTE, BACKSLASH, "/"} -> ch
      [] ch = "b" -> BS
      [] ch = "f" -> FF
      [] ch = "n" -> LF
      [] ch = "r" -> CR
      [] ch = "t" -> TAB

\* An iteration that stores one byte: a plain character or a one-byte escape.
json_parse_string_literal_char ==
    /\ InStringLoop
    /\ StringCh1.ch = BACKSLASH => StringCh2.ch \in SingleEscapes
    /\ LET escaped == StringCh1.ch = BACKSLASH
           ch == IF escaped THEN EscapeByte(StringCh2.ch) ELSE StringCh1.ch
           grow == Top.length + 2 >= Top.capacity
           capacity == IF grow THEN Top.capacity * 2 ELSE Top.capacity
           h1 == IF grow THEN realloc(heap, Top.v, capacity) ELSE heap
       IN  /\ cur' = IF escaped THEN StringCh2.cur ELSE StringCh1.cur
           /\ heap' = store(h1, Top.v, ch)
           /\ stack' = Goto([Top EXCEPT !.capacity = capacity,
                                        !.length = @ + 1])
    /\ UNCHANGED <<text, error, ret, callerVars>>

\* case 'u' with the growth test of the one-byte store: room for two bytes.
json_parse_string_literal_unicode_tight ==
    /\ InStringLoop
    /\ StringCh1.ch = BACKSLASH
    /\ StringCh2.ch = "u"
    /\ LET grow == Top.length + 2 >= Top.capacity
           capacity == IF grow THEN Top.capacity * 2 ELSE Top.capacity
           h0 == IF grow THEN realloc(heap, Top.v, capacity) ELSE heap
           n1 == json_next(text, StringCh2.cur)
           n2 == json_next(text, n1.cur)
           n3 == json_next(text, n2.cur)
           n4 == json_next(text, n3.cur)
           h1 == store(store(h0, Top.v, BACKSLASH), Top.v, "u")
           h2 == store(store(h1, Top.v, n1.ch), Top.v, n2.ch)
       IN  /\ cur' = n4.cur
           /\ heap' = store(store(h2, Top.v, n3.ch), Top.v, n4.ch)
           /\ stack' = Goto([Top EXCEPT !.capacity = capacity,
                                        !.length = @ + 6])
    /\ UNCHANGED <<text, error, ret, callerVars>>

\* case 'u': the escape is kept as it is, with the four characters after it.
json_parse_string_literal_unicode ==
    /\ InStringLoop
    /\ StringCh1.ch = BACKSLASH
    /\ StringCh2.ch = "u"
    /\ LET grow == Top.length + 6 >= Top.capacity
           capacity == IF grow THEN Top.capacity * 2 ELSE Top.capacity
           h0 == IF grow THEN realloc(heap, Top.v, capacity) ELSE heap
           n1 == json_next(text, StringCh2.cur)
           n2 == json_next(text, n1.cur)
           n3 == json_next(text, n2.cur)
           n4 == json_next(text, n3.cur)
           h1 == store(store(h0, Top.v, BACKSLASH), Top.v, "u")
           h2 == store(store(h1, Top.v, n1.ch), Top.v, n2.ch)
       IN  /\ cur' = n4.cur
           /\ heap' = store(store(h2, Top.v, n3.ch), Top.v, n4.ch)
           /\ stack' = Goto([Top EXCEPT !.capacity = capacity,
                                        !.length = @ + 6])
    /\ UNCHANGED <<text, error, ret, callerVars>>

\* The default case of the escape switch without its json_error: the literal
\* fails and leaves the error slot as it was.
json_parse_string_literal_bad_escape_silent ==
    /\ InStringLoop
    /\ StringCh1.ch = BACKSLASH
    /\ StringCh2.ch \notin SingleEscapes \cup {"u"}
    /\ cur' = StringCh2.cur
    /\ heap' = free(heap, Top.v)
    /\ ret' = NULL
    /\ stack' = Pop
    /\ UNCHANGED <<text, error, callerVars>>

\* A backslash at the end of the input, or before any other character.
json_parse_string_literal_bad_escape ==
    /\ InStringLoop
    /\ StringCh1.ch = BACKSLASH
    /\ StringCh2.ch \notin SingleEscapes \cup {"u"}
    /\ cur' = StringCh2.cur
    /\ error' = json_error(error, text, StringCh2.cur,
                           IF StringCh2.ch = NUL
                           THEN "Unterminated escape sequence"
                           ELSE "Invalid escape sequence")
    /\ heap' = free(heap, Top.v)
    /\ ret' = NULL
    /\ stack' = Pop
    /\ UNCHANGED <<text, callerVars>>

\* The end of the loop taking the end of the input for the closing quote.
json_parse_string_literal_close_at_end ==
    /\ At("json_parse_string_literal", "loop")
    /\ json_peek(text, cur) \in {NUL, QUOTE}
    /\ cur' = json_next(text, cur).cur
    /\ heap' = store(heap, Top.v, NUL)
    /\ ret' = Top.v
    /\ stack' = Pop
    /\ UNCHANGED <<text, error, callerVars>>

\* After the loop: the closing quote, or "Unterminated string literal".
json_parse_string_literal_close ==
    /\ At("json_parse_string_literal", "loop")
    /\ json_peek(text, cur) \in {NUL, QUOTE}
    /\ IF json_peek(text, cur) # QUOTE
       THEN /\ error' = json_error(error, text, cur, "Unterminated string literal")
            /\ heap' = free(heap, Top.v)
            /\ ret' = NULL
            /\ UNCHANGED cur
       ELSE /\ LET e == json_expect(error, text, cur, QUOTE) IN
               /\ cur' = e.cur
               /\ error' = e.error
            /\ heap' = store(heap, Top.v, NUL)
            /\ ret' = Top.v
    /\ stack' = Pop
    /\ UNCHANGED <<text, callerVars>>

json_parse_string_literal ==
    \/ json_parse_string_literal_open
    \/ json_parse_string_literal_char
    \/ json_parse_string_literal_unicode
    \/ json_parse_string_literal_bad_escape
    \/ json_parse_string_literal_close

(***************************************************************************)
(* Containers: json_array_push and json_object_put                         *)
(***************************************************************************)
InitialCapacity == 4

\* realloc(block, capacity * sizeof(pointer)): a new block when block is NULL.
GrowBlock(h, block, cap) ==
    IF block = NULL THEN xmalloc(h, BlockCell(cap)) ELSE realloc(h, block, cap)
Grown(h, block) == IF block = NULL THEN NewAddr(h) ELSE block
GrownCapacity(capacity) ==
    IF capacity # 0 THEN capacity * 2 ELSE InitialCapacity

\* json_array_push storing the item in front of the others.
json_array_push_front(h, arrayValue, item) ==
    LET array == h[arrayValue]
        grow == array.size = array.capacity
        capacity == IF grow THEN GrownCapacity(array.capacity) ELSE array.capacity
        h1 == IF grow THEN GrowBlock(h, array.items, capacity) ELSE h
        items == IF grow THEN Grown(h, array.items) ELSE array.items
    IN  [h1 EXCEPT ![items].slots = <<item>> \o @,
                   ![arrayValue].items = items,
                   ![arrayValue].capacity = capacity,
                   ![arrayValue].size = @ + 1]

json_array_push(h, arrayValue, item) ==
    LET array == h[arrayValue]
        grow == array.size = array.capacity
        capacity == IF grow THEN GrownCapacity(array.capacity) ELSE array.capacity
        h1 == IF grow THEN GrowBlock(h, array.items, capacity) ELSE h
        items == IF grow THEN Grown(h, array.items) ELSE array.items
    IN  [h1 EXCEPT ![items].slots = Append(@, item),
                   ![arrayValue].items = items,
                   ![arrayValue].capacity = capacity,
                   ![arrayValue].size = @ + 1]

\* json_object_put as a map would do it: an entry whose key holds the same
\* bytes gets the new value, and only a new key is appended.
json_object_put_overwrites(h, objectValue, key, value) ==
    LET object == h[objectValue]
        same == {i \in 1..object.size :
                   /\ key # NULL
                   /\ h[object.keys].slots[i] # NULL
                   /\ h[h[object.keys].slots[i]].bytes = h[key].bytes}
        grow == object.size = object.capacity
        capacity == IF grow THEN GrownCapacity(object.capacity) ELSE object.capacity
        h1 == IF grow THEN GrowBlock(h, object.keys, capacity) ELSE h
        keys == IF grow THEN Grown(h, object.keys) ELSE object.keys
        h2 == IF grow THEN GrowBlock(h1, object.values, capacity) ELSE h1
        values == IF grow THEN Grown(h1, object.values) ELSE object.values
    IN  IF same # {}
        THEN [h EXCEPT ![object.values].slots[CHOOSE i \in same : TRUE] = value]
        ELSE [h2 EXCEPT ![keys].slots = Append(@, key),
                        ![values].slots = Append(@, value),
                        ![objectValue].keys = keys,
                        ![objectValue].values = values,
                        ![objectValue].capacity = capacity,
                        ![objectValue].size = @ + 1]

json_object_put(h, objectValue, key, value) ==
    LET object == h[objectValue]
        grow == object.size = object.capacity
        capacity == IF grow THEN GrownCapacity(object.capacity) ELSE object.capacity
        h1 == IF grow THEN GrowBlock(h, object.keys, capacity) ELSE h
        keys == IF grow THEN Grown(h, object.keys) ELSE object.keys
        h2 == IF grow THEN GrowBlock(h1, object.values, capacity) ELSE h1
        values == IF grow THEN Grown(h1, object.values) ELSE object.values
    IN  [h2 EXCEPT ![keys].slots = Append(@, key),
                   ![values].slots = Append(@, value),
                   ![objectValue].keys = keys,
                   ![objectValue].values = values,
                   ![objectValue].capacity = capacity,
                   ![objectValue].size = @ + 1]

(***************************************************************************)
(* json_parse_array                                                        *)
(***************************************************************************)
\* '[', the empty array, or the call for the first item.
json_parse_array_open ==
    /\ At("json_parse_array", "open")
    /\ LET e1 == json_expect(error, text, cur, "[")
           array == NewAddr(heap)
           c1 == json_skip_ws(text, e1.cur)
           e2 == json_expect(e1.error, text, c1, "]")
       IN  /\ heap' = xmalloc(heap, json_make_value("JSON_ARRAY"))
           /\ IF json_peek(text, c1) = "]"
              THEN /\ cur' = e2.cur
                   /\ error' = e2.error
                   /\ ret' = array
                   /\ stack' = Pop
              ELSE /\ cur' = json_skip_ws(text, c1)
                   /\ error' = e1.error
                   /\ UNCHANGED ret
                   /\ stack' = Call([Frame("json_parse_array", "item") EXCEPT
                                       !.v = array],
                                    Frame("json_parse_value", "dispatch"))
    /\ UNCHANGED <<text, callerVars>>

\* json_parse_array without the return on a NULL item: the item is not
\* pushed, and the function goes on to the closing bracket.
json_parse_array_item_continues ==
    /\ At("json_parse_array", "item")
    /\ LET c1 == json_skip_ws(text, cur)
           comma == json_expect(error, text, c1, ",")
           e0 == IF ret = NULL
                 THEN json_error(error, text, cur, "Invalid array item")
                 ELSE error
           e1 == IF json_peek(text, c1) # "]"
                 THEN json_error(e0, text, c1, "Unterminated array")
                 ELSE e0
           close == json_expect(e1, text, c1, "]")
       IN  /\ heap' = IF ret = NULL THEN heap
                      ELSE json_array_push(heap, Top.v, ret)
           /\ IF ret # NULL /\ json_peek(text, c1) = ","
              THEN /\ cur' = json_skip_ws(text, comma.cur)
                   /\ error' = comma.error
                   /\ UNCHANGED ret
                   /\ stack' = Call(Top, Frame("json_parse_value", "dispatch"))
              ELSE /\ cur' = close.cur
                   /\ error' = close.error
                   /\ ret' = Top.v
                   /\ stack' = Pop
    /\ UNCHANGED <<text, callerVars>>

\* The loop of json_parse_array without the json_next that takes the comma.
json_parse_array_item_keeps_comma ==
    /\ At("json_parse_array", "item")
    /\ IF ret = NULL
       THEN /\ error' = json_error(error, text, cur, "Invalid array item")
            /\ ret' = Top.v
            /\ stack' = Pop
            /\ UNCHANGED <<cur, heap>>
       ELSE LET c1 == json_skip_ws(text, cur)
                e1 == IF json_peek(text, c1) # "]"
                      THEN json_error(error, text, c1, "Unterminated array")
                      ELSE error
                close == json_expect(e1, text, c1, "]")
            IN  /\ heap' = json_array_push(heap, Top.v, ret)
                /\ IF json_peek(text, c1) = ","
                   THEN /\ cur' = c1
                        /\ UNCHANGED <<error, ret>>
                        /\ stack' = Call(Top, Frame("json_parse_value", "dispatch"))
                   ELSE /\ cur' = close.cur
                        /\ error' = close.error
                        /\ ret' = Top.v
                        /\ stack' = Pop
    /\ UNCHANGED <<text, callerVars>>

\* After json_parse_value returned the item: the rest of the loop body, and
\* either the call for the next item or the closing bracket.
json_parse_array_item ==
    /\ At("json_parse_array", "item")
    /\ IF ret = NULL
       THEN /\ error' = json_error(error, text, cur, "Invalid array item")
            /\ ret' = Top.v
            /\ stack' = Pop
            /\ UNCHANGED <<cur, heap>>
       ELSE LET c1 == json_skip_ws(text, cur)
                comma == json_expect(error, text, c1, ",")
                e1 == IF json_peek(text, c1) # "]"
                      THEN json_error(error, text, c1, "Unterminated array")
                      ELSE error
                close == json_expect(e1, text, c1, "]")
            IN  /\ heap' = json_array_push(heap, Top.v, ret)
                /\ IF json_peek(text, c1) = ","
                   THEN /\ cur' = json_skip_ws(text, comma.cur)
                        /\ error' = comma.error
                        /\ UNCHANGED ret
                        /\ stack' = Call(Top, Frame("json_parse_value", "dispatch"))
                   ELSE /\ cur' = close.cur
                        /\ error' = close.error
                        /\ ret' = Top.v
                        /\ stack' = Pop
    /\ UNCHANGED <<text, callerVars>>

json_parse_array ==
    \/ json_parse_array_open
    \/ json_parse_array_item

(***************************************************************************)
(* json_parse_object                                                       *)
(***************************************************************************)
\* The head of the loop, from offset c with error slot err: skip whitespace,
\* then "Expected string key" or the call of json_parse_string_literal.
ObjectLoopHead(err, c, object) ==
    LET c1 == json_skip_ws(text, c) IN
    /\ cur' = c1
    /\ IF json_peek(text, c1) # QUOTE
       THEN /\ error' = json_error(err, text, c1, "Expected string key")
            /\ ret' = object
            /\ stack' = Pop
       ELSE /\ error' = err
            /\ UNCHANGED ret
            /\ stack' = Call([Frame("json_parse_object", "key") EXCEPT
                                !.v = object],
                             Frame("json_parse_string_literal", "open"))

json_parse_object_open ==
    /\ At("json_parse_object", "open")
    /\ LET e1 == json_expect(error, text, cur, "{")
           object == NewAddr(heap)
           c1 == json_skip_ws(text, e1.cur)
           e2 == json_expect(e1.error, text, c1, "}")
       IN  /\ heap' = xmalloc(heap, json_make_value("JSON_OBJECT"))
           /\ IF json_peek(text, c1) = "}"
              THEN /\ cur' = e2.cur
                   /\ error' = e2.error
                   /\ ret' = object
                   /\ stack' = Pop
              ELSE ObjectLoopHead(e1.error, c1, object)
    /\ UNCHANGED <<text, callerVars>>

\* After json_parse_string_literal returned the key: ':' and the call for
\* the value.
json_parse_object_key ==
    /\ At("json_parse_object", "key")
    /\ LET c1 == json_skip_ws(text, cur)
           e == json_expect(error, text, c1, ":")
       IN  /\ cur' = json_skip_ws(text, e.cur)
           /\ error' = e.error
    /\ stack' = Call([Top EXCEPT !.pc = "value", !.key = ret],
                     Frame("json_parse_value", "dispatch"))
    /\ UNCHANGED <<text, ret, heap, callerVars>>

\* After json_parse_value returned the value: the rest of the loop body, and
\* either the next key or the closing brace.
json_parse_object_value ==
    /\ At("json_parse_object", "value")
    /\ IF ret = NULL
       THEN /\ error' = json_error(error, text, cur, "Invalid object value")
            /\ heap' = free(heap, Top.key)
            /\ ret' = Top.v
            /\ stack' = Pop
            /\ UNCHANGED cur
       ELSE LET c1 == json_skip_ws(text, cur)
                comma == json_expect(error, text, c1, ",")
                e1 == IF json_peek(text, c1) # "}"
                      THEN json_error(error, text, c1, "Unterminated object")
                      ELSE error
                close == json_expect(e1, text, c1, "}")
            IN  /\ heap' = json_object_put(heap, Top.v, Top.key, ret)
                /\ IF json_peek(text, c1) = ","
                   THEN ObjectLoopHead(comma.error, comma.cur, Top.v)
                   ELSE /\ cur' = close.cur
                        /\ error' = close.error
                        /\ ret' = Top.v
                        /\ stack' = Pop
    /\ UNCHANGED <<text, callerVars>>

json_parse_object ==
    \/ json_parse_object_open
    \/ json_parse_object_key
    \/ json_parse_object_value

(***************************************************************************)
(* json_parse, second half, and main's test of the root it gets            *)
(***************************************************************************)
Report(what) == <<"JSON parse error", what>>

\* json_parse without the test for trailing characters.
json_parse_end_ignores_trailer ==
    /\ At("json_parse", "value")
    /\ IF ret = NULL \/ error # NoError
       THEN /\ stderr' = Append(stderr, Report(IF error # NoError THEN error
                                               ELSE <<"unknown">>))
            /\ root' = NULL
            /\ UNCHANGED cur
       ELSE /\ cur' = json_skip_ws(text, cur)
            /\ root' = ret
            /\ UNCHANGED stderr
    /\ stack' = <<Frame("main", IF root' = NULL THEN "exit" ELSE "use")>>
    /\ UNCHANGED <<text, error, ret, heap, getVars>>

\* json_parse testing only the value, not the error slot.
json_parse_end_ignores_error ==
    /\ At("json_parse", "value")
    /\ IF ret = NULL
       THEN /\ stderr' = Append(stderr, Report(IF error # NoError THEN error
                                               ELSE <<"unknown">>))
            /\ root' = NULL
            /\ UNCHANGED cur
       ELSE LET c1 == json_skip_ws(text, cur) IN
            /\ cur' = c1
            /\ IF CharAt(text, c1) # NUL
               THEN /\ stderr' = Append(stderr, Report(<<"trailing characters">>))
                    /\ root' = NULL
               ELSE /\ root' = ret
                    /\ UNCHANGED stderr
    /\ stack' = <<Frame("main", IF root' = NULL THEN "exit" ELSE "use")>>
    /\ UNCHANGED <<text, error, ret, heap, getVars>>

json_parse_end ==
    /\ At("json_parse", "value")
    /\ IF ret = NULL \/ error # NoError
       THEN /\ stderr' = Append(stderr, Report(IF error # NoError THEN error
                                               ELSE <<"unknown">>))
            /\ root' = NULL
            /\ UNCHANGED cur
       ELSE LET c1 == json_skip_ws(text, cur) IN
            /\ cur' = c1
            /\ IF CharAt(text, c1) # NUL
               THEN /\ stderr' = Append(stderr, Report(<<"trailing characters">>))
                    /\ root' = NULL
               ELSE /\ root' = ret
                    /\ UNCHANGED stderr
    /\ stack' = <<Frame("main", IF root' = NULL THEN "exit" ELSE "use")>>
    /\ UNCHANGED <<text, error, ret, heap, getVars>>

(***************************************************************************)
(* json_object_get, and main's lookups in the tree                         *)
(***************************************************************************)
RECURSIVE CString(_)
\* The C string a buffer holds: its bytes up to the first NUL.
CString(bytes) ==
    IF bytes = <<>> \/ Head(bytes) = NUL THEN <<>>
    ELSE <<Head(bytes)>> \o CString(Tail(bytes))

Undefined == -1

RECURSIVE ObjectScan(_, _, _, _)
\* The loop of json_object_get from index i; strcmp on a NULL key is
\* undefined.
ObjectScan(h, objectValue, key, i) ==
    LET object == h[objectValue] IN
    IF i >= object.size THEN NULL
    ELSE IF h[object.keys].slots[i + 1] = NULL THEN Undefined
    ELSE IF CString(h[h[object.keys].slots[i + 1]].bytes) = key
         THEN h[object.values].slots[i + 1]
    ELSE ObjectScan(h, objectValue, key, i + 1)

RECURSIVE ObjectScanDown(_, _, _, _)
ObjectScanDown(h, objectValue, key, i) ==
    LET object == h[objectValue] IN
    IF i = 0 THEN NULL
    ELSE IF h[object.keys].slots[i] = NULL THEN Undefined
    ELSE IF CString(h[h[object.keys].slots[i]].bytes) = key
         THEN h[object.values].slots[i]
    ELSE ObjectScanDown(h, objectValue, key, i - 1)

\* json_object_get with the loop running from the last entry to the first.
json_object_get_last(h, objectValue, key) ==
    IF objectValue = NULL \/ h[objectValue].type # "JSON_OBJECT" THEN NULL
    ELSE ObjectScanDown(h, objectValue, key, h[objectValue].size)

json_object_get(h, objectValue, key) ==
    IF objectValue = NULL \/ h[objectValue].type # "JSON_OBJECT" THEN NULL
    ELSE ObjectScan(h, objectValue, key, 0)

\* The argument or the result a call does not have.
NoValue == <<>>

\* The keys main looks up.
LookupKeys == {<<"a">>, <<"b">>}

\* main looks a key up in the root or in the value a lookup gave it, which
\* may be NULL (dataVal, userVal).
main_object_get ==
    /\ At("main", "use")
    /\ \E objectValue \in {root, got}, key \in LookupKeys :
         LET r == json_object_get(heap, objectValue, key) IN
         /\ call' = "json_object_get"
         /\ getObj' = objectValue
         /\ getKey' = key
         /\ got' \in IF r = Undefined THEN 0..Len(heap) ELSE {r}
         /\ getIndex' = 0
         /\ defaultValue' = NoValue
         /\ result' = NoValue
    /\ UNCHANGED <<text, cur, error, stack, ret, heap, root, stderr>>

(***************************************************************************)
(* json_array_size and json_array_get, and main's walks over arrays        *)
(***************************************************************************)
json_array_size(h, value) ==
    IF value = NULL \/ h[value].type # "JSON_ARRAY" THEN 0
    ELSE h[value].size

\* items[index]: a slot that was never written holds anything.
ItemAt(h, items, index) ==
    IF items = NULL \/ index >= Len(h[items].slots) THEN Undefined
    ELSE h[items].slots[index + 1]

\* json_array_get with the bound test off by one: index = size passes.
json_array_get_past_end(h, value, index) ==
    IF value = NULL \/ h[value].type # "JSON_ARRAY" THEN NULL
    ELSE IF index > h[value].size THEN NULL
    ELSE ItemAt(h, h[value].items, index)

json_array_get(h, value, index) ==
    IF value = NULL \/ h[value].type # "JSON_ARRAY" THEN NULL
    ELSE IF index >= h[value].size THEN NULL
    ELSE ItemAt(h, h[value].items, index)

\* main asks for the size of the root or of a value it got.
main_array_size ==
    /\ At("main", "use")
    /\ \E value \in {root, got} :
         /\ call' = "json_array_size"
         /\ getObj' = value
         /\ result' = json_array_size(heap, value)
    /\ getKey' = <<>>
    /\ getIndex' = 0
    /\ defaultValue' = NoValue
    /\ UNCHANGED <<text, cur, error, stack, ret, heap, root, stderr, got>>

\* main asks for an item of the root or of a value it got, at an index
\* inside the array, at its size or past it.
main_array_get ==
    /\ At("main", "use")
    /\ \E value \in {root, got} :
         \E index \in 0..(json_array_size(heap, value) + 1) :
           LET r == json_array_get(heap, value, index) IN
           /\ call' = "json_array_get"
           /\ getObj' = value
           /\ getIndex' = index
           /\ got' \in IF r = Undefined THEN 0..Len(heap) ELSE {r}
    /\ getKey' = <<>>
    /\ defaultValue' = NoValue
    /\ result' = NoValue
    /\ UNCHANGED <<text, cur, error, stack, ret, heap, root, stderr>>

(***************************************************************************)
(* json_get_string, json_get_number and json_get_bool, and main's reads of *)
(* scalars.  A string result stands for the text the returned pointer      *)
(* points to.                                                              *)
(***************************************************************************)
\* json_get_string returning NULL where the variant differs.
json_get_string_or_null(h, value, default) ==
    IF value = NULL THEN default
    ELSE IF h[value].type = "JSON_STRING"
         THEN IF h[value].string # NULL
              THEN CString(h[h[value].string].bytes) ELSE default
    ELSE NoValue

json_get_string(h, value, default) ==
    IF value = NULL THEN default
    ELSE IF h[value].type = "JSON_STRING"
         THEN IF h[value].string # NULL
              THEN CString(h[h[value].string].bytes) ELSE default
    ELSE default

json_get_number(h, value, default) ==
    IF value = NULL THEN default
    ELSE IF h[value].type = "JSON_NUMBER" THEN h[value].number
    ELSE default

json_get_bool(h, value, default) ==
    IF value = NULL THEN default
    ELSE IF h[value].type = "JSON_BOOL" THEN h[value].boolean
    ELSE default

\* The defaults main passes: a text, a number, 0 or 1.
StringDefaults == {<<"?">>}
NumberDefaults == {[neg |-> TRUE, mant |-> 1, exp |-> 0]}
BoolDefaults == {0, 1}

\* What a scalar read leaves of main's call record.
ScalarCall(fn, value, default) ==
    /\ call' = fn
    /\ getObj' = value
    /\ defaultValue' = default
    /\ getKey' = <<>>
    /\ getIndex' = 0
    /\ UNCHANGED <<text, cur, error, stack, ret, heap, root, stderr, got>>

main_get_string ==
    /\ At("main", "use")
    /\ \E value \in {root, got}, default \in StringDefaults :
         /\ result' = json_get_string(heap, value, default)
         /\ ScalarCall("json_get_string", value, default)

main_get_number ==
    /\ At("main", "use")
    /\ \E value \in {root, got}, default \in NumberDefaults :
         /\ result' = json_get_number(heap, value, default)
         /\ ScalarCall("json_get_number", value, default)

main_get_bool ==
    /\ At("main", "use")
    /\ \E value \in {root, got}, default \in BoolDefaults :
         /\ result' = json_get_bool(heap, value, default)
         /\ ScalarCall("json_get_bool", value, default)

(***************************************************************************)
(* json_free, and main's release of the tree.  main does not use a value   *)
(* of the tree after it.                                                   *)
(***************************************************************************)
main_free ==
    /\ At("main", "use")
    /\ stack' = <<Frame("main", "done"),
                  [Frame("json_free", "enter") EXCEPT !.v = root]>>
    /\ call' = "json_free"
    /\ getObj' = root
    /\ getKey' = <<>>
    /\ got' = NULL
    /\ getIndex' = 0
    /\ defaultValue' = NoValue
    /\ result' = NoValue
    /\ UNCHANGED <<text, cur, error, ret, heap, root, stderr>>

\* The test for NULL and the switch: a string's buffer and a scalar are
\* released at once, a container starts its loop.
json_free_enter ==
    /\ At("json_free", "enter")
    /\ LET value == Top.v IN
       IF value = NULL
       THEN /\ stack' = Pop
            /\ UNCHANGED heap
       ELSE CASE heap[value].type = "JSON_STRING" ->
                   /\ heap' = free(free(heap, heap[value].string), value)
                   /\ stack' = Pop
              [] heap[value].type = "JSON_ARRAY" ->
                   /\ stack' = Goto([Top EXCEPT !.pc = "items", !.i = 0])
                   /\ UNCHANGED heap
              [] heap[value].type = "JSON_OBJECT" ->
                   /\ stack' = Goto([Top EXCEPT !.pc = "entries", !.i = 0])
                   /\ UNCHANGED heap
              [] OTHER ->
                   /\ heap' = free(heap, value)
                   /\ stack' = Pop
    /\ UNCHANGED <<text, cur, error, ret, callerVars>>

\* The loop over the items: json_free(items[i]), and after the last item
\* free(items), then free(value).
json_free_array ==
    /\ At("json_free", "items")
    /\ LET array == heap[Top.v] IN
       IF Top.i < array.size
       THEN /\ stack' = Call([Top EXCEPT !.i = @ + 1],
                             [Frame("json_free", "enter") EXCEPT
                                !.v = ItemAt(heap, array.items, Top.i)])
            /\ UNCHANGED heap
       ELSE /\ heap' = free(free(heap, array.items), Top.v)
            /\ stack' = Pop
    /\ UNCHANGED <<text, cur, error, ret, callerVars>>

\* json_free's loop over the entries without free(keys[i]).
json_free_object_keeps_keys ==
    /\ At("json_free", "entries")
    /\ LET object == heap[Top.v] IN
       IF Top.i < object.size
       THEN /\ UNCHANGED heap
            /\ stack' = Call([Top EXCEPT !.i = @ + 1],
                             [Frame("json_free", "enter") EXCEPT
                                !.v = ItemAt(heap, object.values, Top.i)])
       ELSE /\ heap' = free(free(free(heap, object.keys), object.values), Top.v)
            /\ stack' = Pop
    /\ UNCHANGED <<text, cur, error, ret, callerVars>>

\* The loop over the entries: free(keys[i]) and json_free(values[i]), and
\* after the last entry free(keys), free(values), then free(value).
json_free_object ==
    /\ At("json_free", "entries")
    /\ LET object == heap[Top.v] IN
       IF Top.i < object.size
       THEN /\ heap' = free(heap, ItemAt(heap, object.keys, Top.i))
            /\ stack' = Call([Top EXCEPT !.i = @ + 1],
                             [Frame("json_free", "enter") EXCEPT
                                !.v = ItemAt(heap, object.values, Top.i)])
       ELSE /\ heap' = free(free(free(heap, object.keys), object.values), Top.v)
            /\ stack' = Pop
    /\ UNCHANGED <<text, cur, error, ret, callerVars>>

json_free ==
    \/ json_free_enter
    \/ json_free_array
    \/ json_free_object

(***************************************************************************)
(* The input texts.  A text is a concatenation of tokens; each family      *)
(* takes every concatenation of its tokens up to its bound.                *)
(***************************************************************************)
RECURSIVE Concat(_, _)
\* Every concatenation of at most n members of tokens.
Concat(tokens, n) ==
    IF n = 0 THEN {<<>>}
    ELSE LET shorter == Concat(tokens, n - 1) IN
         shorter \cup {s \o t : s \in shorter, t \in tokens}

\* The documents the design's testable properties name.
Corpus ==
    {<<"t", "r", "u", "e">>,
     <<"f", "a", "l", "s", "e">>,
     <<"n", "u", "l", "l">>,
     <<"4", "2">>,
     <<"-", "3", ".", "5", "e", "2">>,
     <<QUOTE, "a", "b", "c", QUOTE>>,
     <<QUOTE, "a", BACKSLASH, "n", "b", QUOTE>>,
     <<QUOTE, BACKSLASH, "u", "0", "0", "e", "9", QUOTE>>,
     <<"[", "3", ",", "1", ",", "2", "]">>,
     <<"{", QUOTE, "a", QUOTE, ":", "1", ",", QUOTE, "a", QUOTE, ":", "2", "}">>,
     <<"1", " ", "2">>,
     <<"1", " ">>,
     <<"{">>,
     <<"[", "1", ",">>,
     <<QUOTE, "u", "n", "t", "e", "r", "m", "i", "n", "a", "t", "e", "d">>,
     <<"t", "r", "u">>}

MaxTokens == 4
StructureTokens ==
    {<<"[">>, <<"]">>, <<"{">>, <<"}">>, <<",">>, <<":">>, <<"1">>, <<SPACE>>,
     <<QUOTE, "a", QUOTE>>}
StructureInputs == Concat(StructureTokens, MaxTokens)

MaxNumberLen == 4
NumberTokens == {<<"-">>, <<"0">>, <<"1">>, <<".">>, <<"e">>, <<"+">>}
NumberInputs == Concat(NumberTokens, MaxNumberLen)

Quoted(body) == <<QUOTE>> \o body \o <<QUOTE>>

MaxStringTokens == 5
StringTokens == {<<BACKSLASH, "u">>, <<"a">>, <<"z">>, <<QUOTE>>}
StringInputs == {Quoted(b) : b \in Concat(StringTokens, MaxStringTokens)}

MaxEscapes == 2
EscapeTokens ==
    {<<BACKSLASH, c>> : c \in SingleEscapes \cup {"q"}}
      \cup {<<BACKSLASH>>, <<"x">>, <<LF>>}
EscapeInputs == {Quoted(b) : b \in Concat(EscapeTokens, MaxEscapes)}

MaxEntries == 2
EntryTokens ==
    {k \o s \o v : k \in {Quoted(<<"a">>), Quoted(<<"b">>)},
                   s \in {<<":">>, <<"x">>},
                   v \in {<<"1">>, <<"2">>, Quoted(<<BACKSLASH, "q">>),
                          <<"[", "1", "]">>}}
RECURSIVE Entries(_)
\* Every comma-separated list of at most n entries.
Entries(n) ==
    IF n = 0 THEN {<<>>}
    ELSE LET shorter == Entries(n - 1) IN
         shorter \cup EntryTokens
           \cup {s \o <<",">> \o e : s \in shorter \ {<<>>}, e \in EntryTokens}
ObjectInputs == {<<"{">> \o es \o <<"}">> : es \in Entries(MaxEntries)}

MaxItems == 5
ItemTokens == {<<"1">>, <<"[", "2", "]">>}
RECURSIVE Items(_)
\* Every comma-separated list of at most n items.
Items(n) ==
    IF n = 0 THEN {<<>>}
    ELSE LET shorter == Items(n - 1) IN
         shorter \cup ItemTokens
           \cup {s \o <<",">> \o e : s \in shorter \ {<<>>}, e \in ItemTokens}
ArrayInputs == {<<"[">> \o is \o <<"]">> : is \in Items(MaxItems)}

\* An object with one entry of each variant.
TypedValues ==
    {<<"n", "u", "l", "l">>, <<"t", "r", "u", "e">>, <<"f", "a", "l", "s", "e">>,
     <<"7">>, Quoted(<<"s">>), <<"[", "]">>, <<"{", "}">>}
TypedInputs == {<<"{">> \o Quoted(<<"a">>) \o <<":">> \o v \o <<"}">> : v \in TypedValues}

\* Every way of cutting short two documents that hold each production.
Prefixes(doc) == {SubSeq(doc, 1, n) : n \in 1..Len(doc)}
TruncatedInputs ==
    Prefixes(<<"{", QUOTE, "a", BACKSLASH, "n", QUOTE, ":", "[", "t", "r", "u",
               "e", ",", QUOTE, BACKSLASH, "u", "0", "0", "e", "9", QUOTE, "]",
               "}">>)
      \cup Prefixes(<<"[", "n", "u", "l", "l", ",", " ", "f", "a", "l", "s",
                      "e", "]">>)

\* true, false and null: whole, cut short, with one letter changed, followed
\* by a letter, and with a space before or after.
Literals ==
    {<<"t", "r", "u", "e">>, <<"f", "a", "l", "s", "e">>, <<"n", "u", "l", "l">>}
LiteralInputs ==
    UNION {Prefixes(l) \cup {[l EXCEPT ![n] = "x"] : n \in 1..Len(l)}
             \cup {l \o <<"x">>, l \o <<SPACE>>, <<SPACE>> \o l} : l \in Literals}

\* Objects whose key fails to parse, with and without the closing quote.
NullKeyInputs ==
    {<<"{", QUOTE, BACKSLASH, "q", QUOTE, ":", "1", "}">>,
     <<"{", QUOTE, BACKSLASH, "q", ":", "1", "}">>}

\* One document that has every place whitespace may stand in, with at most
\* MaxFilled of its gaps filled by a character or a run of two.
WsDocument ==
    <<<<"{">>, Quoted(<<"a">>), <<":">>, <<"[">>, <<"1">>, <<",">>, <<"2">>,
      <<"]">>, <<"}">>>>
Fillers == {<<SPACE>>, <<TAB, LF>>, <<CR>>, <<FF>>}
MaxFilled == 2
RECURSIVE Fillings(_, _)
\* The texts of the tokens from the g-th on, with at most n gaps filled.
Fillings(g, n) ==
    IF g > Len(WsDocument) THEN {<<>>}
    ELSE {WsDocument[g] \o r : r \in Fillings(g + 1, n)}
           \cup (IF n > 0 /\ g < Len(WsDocument)
                 THEN {WsDocument[g] \o f \o r :
                         f \in Fillers, r \in Fillings(g + 1, n - 1)}
                 ELSE {})
WhitespaceInputs == Fillings(1, MaxFilled)

Inputs ==
    Corpus \cup StructureInputs \cup NumberInputs \cup StringInputs
      \cup EscapeInputs \cup ObjectInputs \cup ArrayInputs \cup TypedInputs
      \cup NullKeyInputs \cup TruncatedInputs \cup LiteralInputs

(***************************************************************************)
(* The specification.  main holds the response text and is about to call   *)
(* json_parse; the parser is a local of json_parse whose error slot holds  *)
(* whatever the stack held before json_parse sets it.                      *)
(***************************************************************************)
Garbage == <<"garbage", <<>>>>

Init ==
    /\ text \in Inputs
    /\ cur = 0
    /\ error \in {NoError, Garbage}
    /\ stack = <<Frame("main", "parse")>>
    /\ ret = NULL
    /\ heap = <<>>
    /\ root = NULL
    /\ stderr = <<>>
    /\ getObj = NULL
    /\ getKey = <<>>
    /\ got = NULL
    /\ call = ""
    /\ getIndex = 0
    /\ defaultValue = NoValue
    /\ result = NoValue

Next ==
    \/ json_parse_begin
    \/ json_parse_value
    \/ json_parse_literal
    \/ json_parse_number
    \/ json_parse_string_literal
    \/ json_parse_array
    \/ json_parse_object
    \/ json_parse_end
    \/ main_object_get
    \/ main_array_size
    \/ main_array_get
    \/ main_get_string
    \/ main_get_number
    \/ main_get_bool
    \/ main_free
    \/ json_free

Spec == Init /\ [][Next]_vars

\* The documents that are not drawn from a bounded family.
Samples ==
    Corpus \cup TypedInputs \cup NullKeyInputs \cup TruncatedInputs
      \cup LiteralInputs

\* json_parse alone, as the one uninterrupted call it is: main calls it and
\* it runs until it returns.
json_parse ==
    \/ json_parse_begin
    \/ json_parse_value
    \/ json_parse_literal
    \/ json_parse_number
    \/ json_parse_string_literal
    \/ json_parse_array
    \/ json_parse_object
    \/ json_parse_end
\* Documents on which a loop goes round without a well-formed item, entry
\* or string.
LoopInputs ==
    {<<"[", ",">>, <<"[", "1", ",", ",", "2", "]">>, <<"[", "[", "[">>,
     <<"{", ",">>, <<"{", QUOTE, "a", QUOTE, ",">>,
     <<"{", QUOTE, "a", QUOTE, ":", "1", ",", ",">>,
     <<"{", QUOTE, "a", QUOTE, ":", "{", QUOTE, "a", QUOTE, ":">>,
     <<QUOTE, BACKSLASH, "u", QUOTE>>, <<QUOTE, "a", BACKSLASH, QUOTE>>}
ParseInit ==
    /\ text \in Samples \cup LoopInputs
    /\ cur = 0
    /\ error \in {NoError, Garbage}
    /\ stack = <<Frame("main", "parse")>>
    /\ ret = NULL
    /\ heap = <<>>
    /\ root = NULL
    /\ stderr = <<>>
    /\ getObj = NULL
    /\ getKey = <<>>
    /\ got = NULL
    /\ call = ""
    /\ getIndex = 0
    /\ defaultValue = NoValue
    /\ result = NoValue
ParseSpec == ParseInit /\ [][json_parse]_vars /\ WF_vars(json_parse)

\* The same program on strings long enough to fill the buffer: a run of at
\* most MaxPad plain characters, then a few characters and escapes.
MaxPad == 62
RECURSIVE Pad(_)
Pad(n) == IF n = 0 THEN <<>> ELSE <<"a">> \o Pad(n - 1)
StringTails ==
    {<<>>, <<"b">>, <<BACKSLASH, "n">>, <<BACKSLASH, "u", "0", "0", "4", "1">>,
     <<BACKSLASH, "u", "0", "0", "4", "1", BACKSLASH, "u", "0", "0", "4", "2">>,
     <<"b", BACKSLASH, "u", "0", "0", "4", "1">>,
     <<BACKSLASH, "u", "0", "0", "4", "1", "b">>,
     <<BACKSLASH, "u", "0">>}
LongStringInputs ==
    {Quoted(Pad(n) \o tail) : n \in 0..MaxPad, tail \in StringTails}
BufferInit ==
    /\ text \in Samples \cup LongStringInputs
    /\ cur = 0
    /\ error \in {NoError, Garbage}
    /\ stack = <<Frame("main", "parse")>>
    /\ ret = NULL
    /\ heap = <<>>
    /\ root = NULL
    /\ stderr = <<>>
    /\ getObj = NULL
    /\ getKey = <<>>
    /\ got = NULL
    /\ call = ""
    /\ getIndex = 0
    /\ defaultValue = NoValue
    /\ result = NoValue
BufferSpec == BufferInit /\ [][Next]_vars

\* The same program on the documents with whitespace in their gaps, and on
\* the documents that are not drawn from a bounded family.
WsInit ==
    /\ text \in Samples \cup WhitespaceInputs
    /\ cur = 0
    /\ error \in {NoError, Garbage}
    /\ stack = <<Frame("main", "parse")>>
    /\ ret = NULL
    /\ heap = <<>>
    /\ root = NULL
    /\ stderr = <<>>
    /\ getObj = NULL
    /\ getKey = <<>>
    /\ got = NULL
    /\ call = ""
    /\ getIndex = 0
    /\ defaultValue = NoValue
    /\ result = NoValue
WsSpec == WsInit /\ [][Next]_vars

(***************************************************************************)
(* Properties                                                              *)
(***************************************************************************)
\* json_parse has returned to main.
Returned == Len(stack) = 1 /\ Top.fn = "main" /\ Top.pc \in {"exit", "use"}
\* json_parse is running.
InParse == Len(stack) > 1 /\ stack[2].fn = "json_parse"
TrailerReported ==
    stderr # <<>> /\ stderr[Len(stderr)] = Report(<<"trailing characters">>)

\* C1: json_parse returns a Value only with the cursor at the end of the
\* input, after the value and trailing whitespace; when a character that is
\* not whitespace remains after the value it returns absent and reports
\* "trailing characters" itself, the error slot being still empty.
ParseEndsAtEndOfInput ==
    Returned =>
      /\ root # NULL => cur = Len(text)
      /\ (error = NoError /\ cur < Len(text)) =>
           /\ root = NULL
           /\ TrailerReported
           /\ CharAt(text, cur) \notin Whitespace
      /\ TrailerReported => (error = NoError /\ root = NULL /\ cur < Len(text))

\* C1 witness: a value was parsed, a character remained, json_parse
\* returned absent.
TrailerRejected ==
    Returned /\ TrailerReported /\ ret # NULL /\ root = NULL

\* C2: a parse in which an error was latched never returns a Value.
NoValueAfterError ==
    (Returned /\ error # NoError) => root = NULL

\* C2 witness: json_parse_value returned a tree, the slot holds an error,
\* and json_parse returned absent.
ErrorWithTreeRejected ==
    Returned /\ error # NoError /\ ret # NULL /\ root = NULL

\* C3: after a json_parse that returns absent, every cell allocated during
\* the call has been freed exactly once.
FailedParseFreesAll ==
    (Returned /\ root = NULL) =>
      \A p \in 1..Len(heap) : heap[p].frees = 1

\* C4: the error slot is a latch: json_parse starts with it empty, a
\* json_error call on the empty slot fills it, and once it is not empty
\* its content stays as it is until json_parse returns.
ErrorSlotIsLatch ==
    [][/\ At("main", "parse") => error' = NoError
       /\ (InParse /\ error # NoError) => error' = error
       /\ (At("json_parse_value", "dispatch")
             /\ ValueChar \notin {QUOTE, "{", "[", "t", "f", "n", "-"} \cup Digits
             /\ error = NoError)
            => error' = <<"Unexpected character", Excerpt(text, cur')>>]_vars

\* C4 witness: "Unterminated array" was latched, and the json_expect(']')
\* after it, which calls json_error again, moved the cursor on.
SecondErrorDropped ==
    /\ Returned
    /\ error # NoError
    /\ error[1] = "Unterminated array"
    /\ Len(error[2]) > Len(text) - cur

\* No Value is created and none is appended to a container in this step.
NoNewValue ==
    /\ Len(heap') = Len(heap)
    /\ \A p \in 1..Len(heap) :
         heap[p].kind = "block" => heap'[p].slots = heap[p].slots

\* C5, as stated: once the error slot is not empty no later step of the
\* parse advances the cursor, creates a Value or appends one.
AllCallsShortCircuit ==
    [][(InParse /\ error # NoError) => (cur' = cur /\ NoNewValue)]_vars

\* C5, amended: once the error slot is not empty, json_parse_array and
\* json_parse_object short-circuit when the item or value they asked for
\* came back absent: they return their container at once, without advancing
\* the cursor, creating a Value or appending one.
FailedItemShortCircuits ==
    [][(/\ At("json_parse_array", "item") \/ At("json_parse_object", "value")
        /\ error # NoError
        /\ ret = NULL)
       => /\ cur' = cur
          /\ NoNewValue
          /\ error' = error
          /\ stack' = Pop
          /\ ret' = Top.v]_vars

\* C5 witness: json_parse_array has returned its empty array after the
\* first item failed with characters left in the input.
ArrayReturnedAfterFailedItem ==
    /\ At("json_parse", "value")
    /\ ret # NULL
    /\ heap[ret].type = "JSON_ARRAY"
    /\ heap[ret].size = 0
    /\ error # NoError
    /\ error[1] = "Unexpected character"
    /\ cur < Len(text)

\* The input without its leading and trailing whitespace.
RECURSIVE StripRight(_)
StripRight(txt) ==
    IF txt # <<>> /\ txt[Len(txt)] \in Whitespace
    THEN StripRight(SubSeq(txt, 1, Len(txt) - 1)) ELSE txt
Strip(txt) == StripRight(SubSeq(txt, json_skip_ws(txt, 0) + 1, Len(txt)))

\* '-'? digit+ ('.' digit+)? (('e'|'E') ('+'|'-')? digit+)?
IsNumberToken(tok) ==
    LET i0 == IF CharAt(tok, 0) = "-" THEN 1 ELSE 0
        i1 == ScanDigits(tok, i0)
        dot == CharAt(tok, i1) = "."
        i2 == IF dot THEN ScanDigits(tok, i1 + 1) ELSE i1
        exp == CharAt(tok, i2) \in {"e", "E"}
        j0 == IF CharAt(tok, i2 + 1) \in {"+", "-"} THEN i2 + 2 ELSE i2 + 1
        j1 == IF exp THEN ScanDigits(tok, j0) ELSE i2
    IN  /\ i1 > i0
        /\ dot => i2 > i1 + 1
        /\ exp => j1 > j0
        /\ j1 = Len(tok)

\* C6: a document parsed to a Number is a token of the number grammar, with
\* a digit in the integer part, after a '.', and after an exponent marker.
NumbersMatchGrammar ==
    (Returned /\ root # NULL /\ heap[root].type = "JSON_NUMBER")
      => IsNumberToken(Strip(text))

HexDigits == Digits \cup {"a", "b", "c", "d", "e", "f", "A", "B", "C", "D", "E", "F"}

RECURSIVE UnicodeEscapesAreHex(_, _)
\* In the string literal body of txt from offset c on, every backslash-u is
\* followed by four hexadecimal digits.
UnicodeEscapesAreHex(txt, c) ==
    IF CharAt(txt, c) \in {NUL, QUOTE} THEN TRUE
    ELSE IF CharAt(txt, c) # BACKSLASH THEN UnicodeEscapesAreHex(txt, c + 1)
    ELSE IF CharAt(txt, c + 1) # "u" THEN UnicodeEscapesAreHex(txt, c + 2)
    ELSE /\ \A i \in 2..5 : CharAt(txt, c + i) \in HexDigits
         /\ UnicodeEscapesAreHex(txt, c + 6)

\* C7: a document parsed to a String has four hexadecimal digits after each
\* backslash-u of its literal.
UnicodeEscapesValidated ==
    (Returned /\ root # NULL /\ heap[root].type = "JSON_STRING")
      => UnicodeEscapesAreHex(text, json_skip_ws(text, 0) + 1)

\* C8, as stated: the value of an accepted document begins at the first
\* character of the input.
ValueAtFirstCharacter ==
    (Returned /\ root # NULL) => CharAt(text, 0) \notin Whitespace

\* json_parse_value is about to run for the top-level value.
TopLevelDispatch == Len(stack) = 3 /\ At("json_parse_value", "dispatch")

\* C8, amended: json_parse itself skips nothing, and json_parse_value skips
\* the leading whitespace: the top-level value begins at the first character
\* of the input that is not whitespace.
ValueAtFirstNonWhitespace ==
    [][TopLevelDispatch =>
         /\ cur = 0
         /\ \A i \in 1..cur' : text[i] \in Whitespace
         /\ CharAt(text, cur') \notin Whitespace]_vars

\* C8 witness: json_parse_number is about to scan the top-level value, past
\* the whitespace the input starts with.
LeadingWhitespaceSkipped ==
    Len(stack) = 3 /\ At("json_parse_number", "scan") /\ cur > 0

\* The byte the claim gives for each one-byte escape.
ClaimedEscapeByte ==
    [c \in SingleEscapes |->
       CASE c = QUOTE -> QUOTE
         [] c = BACKSLASH -> BACKSLASH
         [] c = "/" -> "/"
         [] c = "b" -> BS
         [] c = "f" -> FF
         [] c = "n" -> LF
         [] c = "r" -> CR
         [] c = "t" -> TAB]

\* The loop of json_parse_string_literal is at a backslash followed by a
\* character outside " \ / b f n r t u.
AtInvalidEscape ==
    /\ InStringLoop
    /\ CharAt(text, cur) = BACKSLASH
    /\ CharAt(text, cur + 1) \notin SingleEscapes \cup {"u", NUL}

\* In this step of the string loop a one-byte escape stores its byte and an
\* unescaped character stores itself.
OneByteStored ==
    InStringLoop =>
      LET c1 == CharAt(text, cur)
          c2 == CharAt(text, cur + 1)
      IN  /\ c1 # BACKSLASH =>
                /\ heap'[Top.v].bytes = Append(heap[Top.v].bytes, c1)
                /\ cur' = cur + 1
          /\ (c1 = BACKSLASH /\ c2 \in SingleEscapes) =>
                /\ heap'[Top.v].bytes = Append(heap[Top.v].bytes, ClaimedEscapeByte[c2])
                /\ cur' = cur + 2

\* C9, as stated: one-byte escapes and unescaped characters store one byte,
\* and an invalid escape leaves "Invalid escape sequence" in the error slot.
InvalidEscapeIsLatched ==
    [][/\ OneByteStored
       /\ AtInvalidEscape =>
            (error' # NoError /\ error'[1] = "Invalid escape sequence")]_vars

\* C9, amended: one-byte escapes and unescaped characters store one byte;
\* an invalid escape reports "Invalid escape sequence" to json_error, which
\* latches it when the slot is empty and keeps an earlier error otherwise,
\* the literal returns absent, and the parse fails.
EscapesResolved ==
    [][/\ OneByteStored
       /\ AtInvalidEscape =>
            /\ error' = IF error = NoError
                        THEN <<"Invalid escape sequence", Excerpt(text, cur + 2)>>
                        ELSE error
            /\ ret' = NULL
            /\ stack' = Pop
       /\ (error # NoError /\ At("json_parse", "value")) => root' = NULL]_vars

\* C9 witness: the string loop is at an invalid escape with an earlier
\* error in the slot.
InvalidEscapeAfterError ==
    AtInvalidEscape /\ error # NoError

\* The entries of the object at p whose key is key.
Matches(p, key) ==
    {i \in 1..heap[p].size :
       /\ heap[heap[p].keys].slots[i] # NULL
       /\ CString(heap[heap[heap[p].keys].slots[i]].bytes) = key}
FirstMatch(p, key) ==
    CHOOSE i \in Matches(p, key) : \A j \in Matches(p, key) : i <= j

\* The offsets of txt at which pattern occurs.
Occurrences(txt, pattern) ==
    {i \in 0..Len(txt) :
       /\ i + Len(pattern) <= Len(txt)
       /\ SubSeq(txt, i + 1, i + Len(pattern)) = pattern}
\* The character after the first "key": of txt.
FirstValueChar(txt, key) ==
    LET pattern == Quoted(key) \o <<":">>
        first == CHOOSE i \in Occurrences(txt, pattern) :
                   \A j \in Occurrences(txt, pattern) : i <= j
    IN  CharAt(txt, first + Len(pattern))
\* The document is one object with no object nested in it.
FlatObject(txt) ==
    /\ CharAt(txt, 0) = "{"
    /\ \A i \in 2..Len(txt) : txt[i] # "{"

\* C10: json_object_get gives the value of the first entry whose key equals
\* the key, absent when there is none, when the object is absent or when it
\* is no Object; in an object parsed from a text it gives the value of the
\* key's first occurrence in the text.
LookupGivesFirstMatch ==
    (At("main", "use") /\ call = "json_object_get") =>
      /\ got = IF getObj = NULL THEN NULL
               ELSE IF heap[getObj].type # "JSON_OBJECT" THEN NULL
               ELSE IF Matches(getObj, getKey) = {} THEN NULL
               ELSE heap[heap[getObj].values].slots[FirstMatch(getObj, getKey)]
      /\ (getObj = root /\ got # NULL /\ FlatObject(text)
            /\ Occurrences(text, Quoted(getKey) \o <<":">>) # {}) =>
           LET v == FirstValueChar(text, getKey) IN
           /\ (v \in Digits /\ CharAt(text, Len(text) - 1) = "}") =>
                /\ heap[got].type = "JSON_NUMBER"
                /\ heap[got].number = [neg |-> FALSE, mant |-> DigitVal(v), exp |-> 0]
           /\ v = "[" => heap[got].type = "JSON_ARRAY"
           /\ v = QUOTE => heap[got].type = "JSON_STRING"

\* C10 witness: the object holds the looked-up key twice, with different
\* values, and the lookup gave the first.
FirstOfDuplicatesFound ==
    /\ At("main", "use")
    /\ call = "json_object_get"
    /\ getObj = root
    /\ getObj # NULL
    /\ heap[getObj].type = "JSON_OBJECT"
    /\ Cardinality(Matches(getObj, getKey)) = 2
    /\ got = heap[heap[getObj].values].slots[1]
    /\ heap[got] # heap[heap[heap[getObj].values].slots[2]]

\* The slots a container's backing block holds, none before the first growth.
Slots(h, block) == IF block = NULL THEN <<>> ELSE h[block].slots
\* The i-th smallest member of a set of numbers.
Nth(S, i) == CHOOSE x \in S : Cardinality({y \in S : y < x}) = i - 1
\* The offsets of the colons of txt, and the text of the string literal that
\* ends before the colon at offset c.
Colons(txt) == Occurrences(txt, <<":">>)
KeyBefore(txt, c) ==
    LET quotes == {q \in 1..c : txt[q] = QUOTE}
        close == CHOOSE q \in quotes : \A r \in quotes : r <= q
        open == CHOOSE q \in quotes \ {close} : \A r \in quotes \ {close} : r <= q
    IN  SubSeq(txt, open + 1, close - 1)

\* C11: json_object_put appends: the entry it is given becomes the last
\* entry, the entries before it stay as they were, the size grows by one, no
\* key is searched for; an object parsed from n pairs has size n and its
\* i-th entry is the i-th pair of the text (compared for texts without an
\* escape, whose keys are the text between their quotes).
ObjectPutAppends ==
    /\ [][(At("json_parse_object", "value") /\ ret # NULL) =>
            LET object == heap[Top.v]
                after == heap'[Top.v]
            IN  /\ after.size = object.size + 1
                /\ Slots(heap', after.keys) =
                     Append(Slots(heap, object.keys), Top.key)
                /\ Slots(heap', after.values) =
                     Append(Slots(heap, object.values), ret)
                /\ Len(Slots(heap', after.keys)) = after.size]_vars
    /\ []((Returned /\ root # NULL /\ FlatObject(text)
              /\ \A i \in 1..Len(text) : text[i] # BACKSLASH) =>
            LET object == heap[root]
                n == Cardinality(Colons(text))
            IN  /\ object.type = "JSON_OBJECT"
                /\ object.size = n
                /\ \A i \in 1..n :
                     LET c == Nth(Colons(text), i)
                         v == CharAt(text, json_skip_ws(text, c + 1))
                         key == heap[object.keys].slots[i]
                         value == heap[object.values].slots[i]
                     IN  /\ key # NULL
                         /\ CString(heap[key].bytes) = KeyBefore(text, c)
                         /\ v \in Digits => heap[value].type = "JSON_NUMBER"
                         /\ v = "[" => heap[value].type = "JSON_ARRAY"
                         /\ v = QUOTE => heap[value].type = "JSON_STRING")

\* C11 witness: an object parsed from two pairs with the same key was
\* returned, and holds both entries in the order of the text.
DuplicateKeyKeptTwice ==
    /\ Returned
    /\ root # NULL
    /\ heap[root].type = "JSON_OBJECT"
    /\ heap[root].size = 2
    /\ CString(heap[heap[heap[root].keys].slots[1]].bytes) =
         CString(heap[heap[heap[root].keys].slots[2]].bytes)
    /\ heap[heap[heap[root].values].slots[1]] #
         heap[heap[heap[root].values].slots[2]]

\* The nesting depth of txt before offset i: brackets and braces opened and
\* not closed.
Depth(txt, i) ==
    Cardinality({j \in 1..i : txt[j] \in {"[", "{"}})
      - Cardinality({j \in 1..i : txt[j] \in {"]", "}"}})
\* The offsets of the commas between the items of the outermost array.
ItemCommas(txt) == {i \in Occurrences(txt, <<",">>) : Depth(txt, i) = 1}
\* The number of items the outermost array of txt has, and the offset its
\* i-th item starts at.
ItemCount(txt) ==
    IF CharAt(txt, json_skip_ws(txt, 1)) = "]" THEN 0
    ELSE Cardinality(ItemCommas(txt)) + 1
ItemStart(txt, i) ==
    json_skip_ws(txt, IF i = 1 THEN 1 ELSE Nth(ItemCommas(txt), i - 1) + 1)
\* The document is one array and holds no string.
PlainArray(txt) ==
    /\ CharAt(txt, 0) = "["
    /\ \A i \in 1..Len(txt) : txt[i] # QUOTE

\* C12: json_array_push appends: the item becomes the last item, the items
\* before it stay, the size grows by one; for an array parsed from n items
\* json_array_size is n and json_array_get(i) is the i-th item of the text.
ArrayPushAppends ==
    /\ [][(At("json_parse_array", "item") /\ ret # NULL) =>
            LET array == heap[Top.v]
                after == heap'[Top.v]
            IN  /\ after.size = array.size + 1
                /\ Slots(heap', after.items) =
                     Append(Slots(heap, array.items), ret)
                /\ Len(Slots(heap', after.items)) = after.size
                /\ after.size <= after.capacity]_vars
    /\ []((Returned /\ root # NULL /\ PlainArray(text)) =>
            LET n == ItemCount(text) IN
            /\ heap[root].type = "JSON_ARRAY"
            /\ json_array_size(heap, root) = n
            /\ \A i \in 1..n :
                 LET at == ItemStart(text, i)
                     v == CharAt(text, at)
                     item == json_array_get(heap, root, i - 1)
                 IN  /\ item \in 1..Len(heap)
                     /\ v = "[" => heap[item].type = "JSON_ARRAY"
                     /\ v = "{" => heap[item].type = "JSON_OBJECT"
                     /\ (v \in Digits /\ CharAt(text, at + 1) \in {",", "]"}) =>
                          /\ heap[item].type = "JSON_NUMBER"
                          /\ heap[item].number =
                               [neg |-> FALSE, mant |-> DigitVal(v), exp |-> 0])

\* C12 witness: an array with more items than its first capacity, of both
\* kinds, was returned.
GrownArrayReturned ==
    /\ Returned
    /\ root # NULL
    /\ heap[root].type = "JSON_ARRAY"
    /\ heap[root].size > InitialCapacity
    /\ heap[json_array_get(heap, root, 0)].type = "JSON_ARRAY"
    /\ heap[json_array_get(heap, root, 4)].type = "JSON_NUMBER"

\* C13: json_array_get gives absent, reading no slot, when the index is at
\* or past the size and when the value is absent or no Array, and the item
\* at the index otherwise; json_array_size gives 0 for an absent value or
\* one that is no Array, and the number of items otherwise.
ArrayAccessorsGuarded ==
    At("main", "use") =>
      /\ call = "json_array_get" =>
           got = IF getObj = NULL THEN NULL
                 ELSE IF heap[getObj].type # "JSON_ARRAY" THEN NULL
                 ELSE IF getIndex >= heap[getObj].size THEN NULL
                 ELSE Slots(heap, heap[getObj].items)[getIndex + 1]
      /\ call = "json_array_size" =>
           result = IF getObj = NULL THEN 0
                    ELSE IF heap[getObj].type # "JSON_ARRAY" THEN 0
                    ELSE Len(Slots(heap, heap[getObj].items))

\* C13 witness: main asked an array that has items for the item at the
\* index equal to its size, and got absent.
ItemAtSizeAbsent ==
    /\ At("main", "use")
    /\ call = "json_array_get"
    /\ getObj # NULL
    /\ heap[getObj].type = "JSON_ARRAY"
    /\ heap[getObj].size > 0
    /\ getIndex = heap[getObj].size
    /\ got = NULL

\* C14: json_get_string, json_get_number and json_get_bool give the default
\* when the value is absent or of another variant, a Null value included,
\* and the payload when the variant is the one asked for.
GettersFallBack ==
    (At("main", "use") /\ call \in {"json_get_string", "json_get_number",
                                     "json_get_bool"}) =>
      LET asked == CASE call = "json_get_string" -> "JSON_STRING"
                     [] call = "json_get_number" -> "JSON_NUMBER"
                     [] call = "json_get_bool" -> "JSON_BOOL"
      IN  IF getObj = NULL THEN result = defaultValue
          ELSE IF heap[getObj].type # asked THEN result = defaultValue
          ELSE CASE asked = "JSON_STRING" ->
                      result = CString(heap[heap[getObj].string].bytes)
                 [] asked = "JSON_NUMBER" -> result = heap[getObj].number
                 [] asked = "JSON_BOOL" -> result = heap[getObj].boolean

\* C14 witness: main read a string from the Null value an object holds
\* under a key, and got the default.
NullValueGivesDefault ==
    /\ At("main", "use")
    /\ call = "json_get_string"
    /\ getObj # NULL
    /\ getObj # root
    /\ heap[getObj].type = "JSON_NULL"
    /\ result = defaultValue

RECURSIVE Owned(_, _)
\* The cells the tree under value owns: its nodes, string payloads, keys
\* and backing arrays.
Owned(h, value) ==
    IF value = NULL THEN {}
    ELSE CASE h[value].type = "JSON_STRING" -> {value, h[value].string} \ {NULL}
           [] h[value].type = "JSON_ARRAY" ->
                ({value, h[value].items} \ {NULL})
                  \cup UNION {Owned(h, Slots(h, h[value].items)[j]) :
                                j \in 1..h[value].size}
           [] h[value].type = "JSON_OBJECT" ->
                ({value, h[value].keys, h[value].values} \ {NULL})
                  \cup ({Slots(h, h[value].keys)[j] : j \in 1..h[value].size}
                          \ {NULL})
                  \cup UNION {Owned(h, Slots(h, h[value].values)[j]) :
                                j \in 1..h[value].size}
           [] OTHER -> {value}

\* C15: json_free on the root of a parsed tree releases every node, string
\* payload, key and backing array of the tree once; a container node is
\* released after everything under it; no cell is released twice.
FreeReleasesTreeOnce ==
    /\ [](\A p \in 1..Len(heap) : heap[p].frees <= 1)
    /\ [](At("main", "done") =>
            \A p \in Owned(heap, root) : heap[p].frees = 1)
    /\ [][\A p \in 1..Len(heap) :
            (heap[p].kind = "value" /\ heap[p].frees = 0 /\ heap'[p].frees = 1) =>
              \A q \in Owned(heap, p) : heap'[q].frees = 1]_vars

\* C15 witness: an object that holds a key and an array with an item has
\* been released by json_free.
NestedTreeReleased ==
    /\ At("main", "done")
    /\ root # NULL
    /\ heap[root].type = "JSON_OBJECT"
    /\ \E j \in 1..heap[root].size :
         LET value == Slots(heap, heap[root].values)[j] IN
         /\ heap[value].type = "JSON_ARRAY"
         /\ heap[value].size > 0
         /\ heap[Slots(heap, heap[value].items)[1]].frees = 1
         /\ heap[Slots(heap, heap[root].keys)[j]].frees = 1
    /\ heap[root].frees = 1

\* C19: the cursor stays between the start of the input and its terminating
\* NUL, and no step moves it back.
CursorInBoundsAndMonotone ==
    /\ [](cur >= 0 /\ cur <= Len(text))
    /\ [][cur' >= cur]_vars

\* C19 witness: json_expect met the end of the input where it wanted ':',
\* and the cursor stayed on the NUL.
ExpectAtEndStays ==
    /\ InParse
    /\ error # NoError
    /\ error[1] = "Expected ':'"
    /\ error[2] = <<>>
    /\ cur = Len(text)

\* The value cells that are objects holding an entry with a NULL key.
NullKeyObjects ==
    {p \in 1..Len(heap) :
       /\ heap[p].kind = "value"
       /\ heap[p].type = "JSON_OBJECT"
       /\ \E j \in 1..heap[p].size : Slots(heap, heap[p].keys)[j] = NULL}

\* C20: in a tree json_parse returned every item, value, key and string
\* payload is present; an entry with a NULL key exists only while the error
\* slot is set, in a parse that returns absent.
ReturnedTreeComplete ==
    /\ (root # NULL) =>
         \A p \in Owned(heap, root) :
           heap[p].kind = "value" =>
             CASE heap[p].type = "JSON_STRING" -> heap[p].string # NULL
               [] heap[p].type = "JSON_ARRAY" ->
                    /\ Len(Slots(heap, heap[p].items)) = heap[p].size
                    /\ \A j \in 1..heap[p].size :
                         Slots(heap, heap[p].items)[j] \in 1..Len(heap)
               [] heap[p].type = "JSON_OBJECT" ->
                    /\ Len(Slots(heap, heap[p].keys)) = heap[p].size
                    /\ Len(Slots(heap, heap[p].values)) = heap[p].size
                    /\ \A j \in 1..heap[p].size :
                         /\ Slots(heap, heap[p].keys)[j] \in 1..Len(heap)
                         /\ Slots(heap, heap[p].values)[j] \in 1..Len(heap)
               [] OTHER -> TRUE
    /\ NullKeyObjects # {} => (error # NoError /\ root = NULL)

\* C20 witness: json_parse returned absent for an object that had stored a
\* value under the NULL key of a failed string literal and was closed by
\* its brace.
NullKeyOnlyInFailedParse ==
    /\ Returned
    /\ root = NULL
    /\ NullKeyObjects # {}
    /\ cur = Len(text)
    /\ CharAt(text, Len(text) - 1) = "}"

RECURSIVE LexEnd(_, _, _, _)
\* What a scan of txt from position i finds at its end: whether it is
\* inside a string literal, and how many brackets and braces are open.  In
\* a string a backslash takes the next character with it, and \u the four
\* after that, as json_parse_string_literal does.
LexEnd(txt, i, inString, depth) ==
    IF i > Len(txt) THEN [inString |-> inString, depth |-> depth]
    ELSE IF inString
         THEN IF txt[i] = BACKSLASH
              THEN LexEnd(txt, IF CharAt(txt, i) = "u" THEN i + 6 ELSE i + 2,
                          TRUE, depth)
              ELSE LexEnd(txt, i + 1, txt[i] # QUOTE, depth)
    ELSE IF txt[i] = QUOTE THEN LexEnd(txt, i + 1, TRUE, depth)
    ELSE IF txt[i] \in {"[", "{"} THEN LexEnd(txt, i + 1, FALSE, depth + 1)
    ELSE IF txt[i] \in {"]", "}"} THEN LexEnd(txt, i + 1, FALSE, depth - 1)
    ELSE LexEnd(txt, i + 1, FALSE, depth)

\* The texts true, false and null cut short.
LiteralStubs ==
    {SubSeq(l, 1, n) : l \in {<<"t", "r", "u", "e">>, <<"f", "a", "l", "s", "e">>,
                              <<"n", "u", "l", "l">>},
                       n \in 1..4} \ {<<"t", "r", "u", "e">>, <<"n", "u", "l", "l">>}
\* txt ends with a cut literal that follows no letter.
EndsInLiteralStub(txt) ==
    \E stub \in LiteralStubs :
      /\ Len(stub) <= Len(txt)
      /\ SubSeq(txt, Len(txt) - Len(stub) + 1, Len(txt)) = stub
      /\ \/ Len(txt) = Len(stub)
         \/ txt[Len(txt) - Len(stub)] \in {"[", ",", ":", SPACE, TAB, LF, CR}

\* The input ends inside a string literal or an escape, with an array or an
\* object open, or inside the text of a literal.
TruncatedText(txt) ==
    \/ LexEnd(txt, 1, FALSE, 0).inString
    \/ LexEnd(txt, 1, FALSE, 0).depth > 0
    \/ (~LexEnd(txt, 1, FALSE, 0).inString /\ EndsInLiteralStub(txt))

\* C16: for an input that ends with an object, an array, a string literal,
\* an escape or a literal incomplete, json_parse returns absent.
TruncatedInputRejected ==
    (Returned /\ TruncatedText(text)) => root = NULL

\* C16 witness: json_parse returned absent for an input that ends after a
\* backslash inside a string literal.
TruncatedEscapeRejected ==
    /\ Returned
    /\ root = NULL
    /\ Len(text) > 1
    /\ text[Len(text)] = BACKSLASH
    /\ LexEnd(text, 1, FALSE, 0).inString
    /\ error # NoError
    /\ error[1] = "Unterminated escape sequence"

\* The decimal value of a token of the number grammar: its digits without
\* the point, scaled by the exponent less the length of the fraction.
DecimalValue(tok) ==
    LET marks == {i \in 1..Len(tok) : tok[i] \in {"e", "E"}}
        epos == IF marks = {} THEN Len(tok) + 1 ELSE CHOOSE i \in marks : TRUE
        mantissa == SubSeq(tok, 1, epos - 1)
        exponent == SubSeq(tok, epos + 1, Len(tok))
        points == {i \in 1..Len(mantissa) : mantissa[i] = "."}
        fraction == IF points = {} THEN 0
                    ELSE Len(mantissa) - (CHOOSE i \in points : TRUE)
        IsDigit(ch) == ch \in Digits
        scale == DigitsToNat(SelectSeq(exponent, IsDigit))
    IN  Normalize(tok[1] = "-", DigitsToNat(SelectSeq(mantissa, IsDigit)),
                  (IF exponent # <<>> /\ exponent[1] = "-" THEN -scale ELSE scale)
                    - fraction)

RECURSIVE IsStringBody(_)
\* body holds no quote of its own, and each backslash in it starts an
\* escape: one of " \ / b f n r t, or u and four hexadecimal digits.
IsStringBody(body) ==
    IF body = <<>> THEN TRUE
    ELSE IF body[1] = QUOTE THEN FALSE
    ELSE IF body[1] # BACKSLASH THEN IsStringBody(Tail(body))
    ELSE IF Len(body) >= 2 /\ body[2] \in SingleEscapes
         THEN IsStringBody(SubSeq(body, 3, Len(body)))
    ELSE /\ Len(body) >= 6
         /\ body[2] = "u"
         /\ \A i \in 3..6 : body[i] \in HexDigits
         /\ IsStringBody(SubSeq(body, 7, Len(body)))
\* doc is one string literal.
IsStringToken(doc) ==
    /\ Len(doc) >= 2
    /\ doc[1] = QUOTE
    /\ doc[Len(doc)] = QUOTE
    /\ IsStringBody(SubSeq(doc, 2, Len(doc) - 1))

RECURSIVE Unescaped(_)
\* body with each one-character escape replaced by the character it names;
\* a unicode escape stays as its six characters.
Unescaped(body) ==
    IF body = <<>> THEN <<>>
    ELSE IF body[1] # BACKSLASH THEN <<body[1]>> \o Unescaped(Tail(body))
    ELSE IF body[2] = "u"
         THEN SubSeq(body, 1, 6) \o Unescaped(SubSeq(body, 7, Len(body)))
    ELSE <<ClaimedEscapeByte[body[2]]>> \o Unescaped(SubSeq(body, 3, Len(body)))

\* The root is a value of the given type.
RootIs(type) == root # NULL /\ heap[root].type = type

\* true, false, null and number documents parse to their value, and a
\* document that starts like a literal parses only when it is the literal.
ScalarsParse ==
    LET doc == Strip(text) IN
    /\ doc = <<"t", "r", "u", "e">> => (RootIs("JSON_BOOL") /\ heap[root].boolean = 1)
    /\ doc = <<"f", "a", "l", "s", "e">> =>
         (RootIs("JSON_BOOL") /\ heap[root].boolean = 0)
    /\ doc = <<"n", "u", "l", "l">> => RootIs("JSON_NULL")
    /\ IsNumberToken(doc) =>
         (RootIs("JSON_NUMBER") /\ heap[root].number = DecimalValue(doc))
    /\ (doc # <<>> /\ doc[1] \in {"t", "f", "n"} /\ root # NULL) => doc \in Literals

RECURSIVE Squeezed(_, _)
\* txt without the spaces, tabs, line feeds and carriage returns that stand
\* outside its string literals.
Squeezed(txt, inString) ==
    IF txt = <<>> THEN <<>>
    ELSE IF ~inString /\ txt[1] \in {" ", "\t", "\n", "\r"}
         THEN Squeezed(Tail(txt), FALSE)
    ELSE <<txt[1]>> \o Squeezed(Tail(txt), IF txt[1] = QUOTE THEN ~inString
                                             ELSE inString)

RECURSIVE TreeText(_, _)
RECURSIVE ItemsText(_, _, _, _)
RECURSIVE EntriesText(_, _, _, _)
\* The document of a tree, written without whitespace: a one-digit number
\* as its digit, any other number as '#'.
TreeText(h, p) ==
    CASE h[p].type = "JSON_NULL" -> <<"n", "u", "l", "l">>
      [] h[p].type = "JSON_BOOL" ->
           IF h[p].boolean = 1 THEN <<"t", "r", "u", "e">>
           ELSE <<"f", "a", "l", "s", "e">>
      [] h[p].type = "JSON_NUMBER" ->
           IF ~h[p].number.neg /\ h[p].number.exp = 0 /\ h[p].number.mant < 10
           THEN <<DigitChars[h[p].number.mant + 1]>> ELSE <<"#">>
      [] h[p].type = "JSON_STRING" -> Quoted(CString(h[h[p].string].bytes))
      [] h[p].type = "JSON_ARRAY" ->
           <<"[">> \o ItemsText(h, p, 1, h[p].size) \o <<"]">>
      [] h[p].type = "JSON_OBJECT" ->
           <<"{">> \o EntriesText(h, p, 1, h[p].size) \o <<"}">>
ItemsText(h, p, j, n) ==
    IF j > n THEN <<>>
    ELSE TreeText(h, Slots(h, h[p].items)[j])
           \o (IF j < n THEN <<",">> ELSE <<>>) \o ItemsText(h, p, j + 1, n)
EntriesText(h, p, j, n) ==
    IF j > n THEN <<>>
    ELSE Quoted(CString(h[Slots(h, h[p].keys)[j]].bytes)) \o <<":">>
           \o TreeText(h, Slots(h, h[p].values)[j])
           \o (IF j < n THEN <<",">> ELSE <<>>) \o EntriesText(h, p, j + 1, n)

\* txt has no escape, and its numbers are single digits.
SimpleTokens(txt) ==
    \A i \in 1..Len(txt) :
      /\ txt[i] \notin {BACKSLASH, "-", "+", "."}
      /\ txt[i] \in Digits =>
           (CharAt(txt, i) \notin Digits \cup {"e", "E"}
              /\ (i > 1 => txt[i - 1] \notin Digits \cup {"e", "E"}))

AbsentOnlyWithError ==
    /\ [][(InParse /\ Top.fn # "json_parse" /\ stack' = Pop /\ ret' = NULL) =>
            error' # NoError]_vars
    /\ []((InParse /\ ret = NULL
             /\ (At("json_parse_array", "item") \/ At("json_parse_object", "value")
                    \/ At("json_parse_value", "text") \/ At("json_parse", "value"))) =>
            error # NoError)
    /\ [](error # NoError =>
            error[1] \notin {"Invalid array item", "Invalid object value"})
    /\ [](\A n \in 1..Len(stderr) : stderr[n] # Report(<<"unknown">>))

\* C21 witness: json_parse_array got an absent item from json_parse_value
\* with the message of a failed literal already latched.
AbsentItemAfterLatch ==
    /\ At("json_parse_array", "item")
    /\ ret = NULL
    /\ error # NoError
    /\ error[1] = "Unexpected literal"

\* C22: json_parse returns on every input: a step that goes round the array
\* loop, the object loop or the string loop moves the cursor forward, and
\* every parse reaches its return to main.
ParseTerminates ==
    /\ [][/\ ((At("json_parse_array", "item")
                 /\ At("json_parse_value", "dispatch")') => (cur' > cur))
           /\ ((At("json_parse_object", "value")
                 /\ At("json_parse_string_literal", "open")') => (cur' > cur))
           /\ ((At("json_parse_string_literal", "loop")
                 /\ At("json_parse_string_literal", "loop")') => (cur' > cur))]_vars
    /\ <>Returned

\* C22 witness: the array loop went round once after a comma, found no item
\* at the second comma and left; json_parse returned absent.
LoopLeftOnBadItem ==
    /\ Returned
    /\ root = NULL
    /\ CharAt(text, 0) = "["
    /\ \E i \in 1..(Len(text) - 1) : text[i] = "," /\ text[i + 1] = ","
    /\ Len(heap) >= 4
    /\ error # NoError
    /\ error[1] = "Unexpected character"

\* C23: every byte json_parse_string_literal writes, the six of a unicode
\* escape and the final NUL included, lies inside the buffer: the bytes
\* written never outnumber the capacity, the capacity is 32 doubled some
\* times and doubles at most once in a step, and the function's length and
\* capacity are those of the buffer.
StringWritesInBuffer ==
    /\ [](\A p \in 1..Len(heap) :
            heap[p].kind = "buffer" => Len(heap[p].bytes) <= heap[p].size)
    /\ [](At("json_parse_string_literal", "loop") =>
            /\ Top.length = Len(heap[Top.v].bytes)
            /\ Top.capacity = heap[Top.v].size
            /\ Top.length < Top.capacity)
    /\ [][(At("json_parse_string_literal", "loop")
             /\ At("json_parse_string_literal", "loop")') =>
            /\ Top'.capacity \in {Top.capacity, 2 * Top.capacity}
            /\ \A n \in (Top.length + 1)..Top'.length :
                 n <= heap'[Top.v].size]_vars

\* C23 witness: the six bytes of a unicode escape were written across
\* index 32, into a buffer that had doubled for them.
EscapeAcrossFirstCapacity ==
    /\ Returned
    /\ root # NULL
    /\ heap[root].type = "JSON_STRING"
    /\ heap[heap[root].string].size = 2 * StringCapacity
    /\ Len(heap[heap[root].string].bytes) > StringCapacity
    /\ \E k \in (StringCapacity - 4)..StringCapacity :
         /\ heap[heap[root].string].bytes[k] = BACKSLASH
         /\ heap[heap[root].string].bytes[k + 1] = "u"

====
